---- MODULE Spec2Model ----
(***************************************************************************)
(* Model of the data pipeline of the housing-affordability explorer:       *)
(* data_utils.py (classify_affordability, add_derived_columns,             *)
(* composite_series, yearly_metro_summary, affordability_counts_by_year,   *)
(* latest_year) and the "load & prep data" block of app.py that runs them. *)
(*                                                                         *)
(* A table (pandas DataFrame) is a record [n, col]: n is the number of     *)
(* rows, col maps each column name that is present to the sequence of its  *)
(* cell values.  A float cell is a record [k, n, d]: NaN, +inf, -inf or    *)
(* the rational n/d in lowest terms.                                       *)
(***************************************************************************)
EXTENDS Integers, Sequences, FiniteSets, TLC

VARIABLES pc, raw, df, comp, summary, counts, year_latest, err, pti_in, band_out,
          tab2

vars == <<pc, raw, df, comp, summary, counts, year_latest, err, pti_in, band_out,
          tab2>>

-----------------------------------------------------------------------------
(* Bounds of the model *)

\* most rows a raw table has
MaxRows == 2

\* largest ratio handed to the classifier on its own, in hundredths
MaxPti == 1000

-----------------------------------------------------------------------------
(* Floating point cells *)

RECURSIVE GCD(_, _)
GCD(a, b) == IF b = 0 THEN a ELSE GCD(b, a % b)

Abs(x) == IF x < 0 THEN -x ELSE x

NaN == [k |-> "nan", n |-> 0, d |-> 1]
Inf == [k |-> "inf", n |-> 1, d |-> 1]
NegInf == [k |-> "inf", n |-> -1, d |-> 1]

\* the float n/d, d > 0, in lowest terms
Frac(n, d) ==
    LET g == GCD(Abs(n), d)
    IN [k |-> "num", n |-> n \div g, d |-> d \div g]

Num(n) == Frac(n, 1)

IsNaN(v) == v.k = "nan"
IsNum(v) == v.k = "num"
IsInf(v) == v.k = "inf"
IsZero(v) == IsNum(v) /\ v.n = 0
Sign(v) == IF v.n > 0 THEN 1 ELSE IF v.n < 0 THEN -1 ELSE 0

\* a <= b on floats: false when either side is NaN
Leq(a, b) ==
    IF IsNaN(a) \/ IsNaN(b) THEN FALSE
    ELSE IF IsInf(a) THEN a.n < 0 \/ (IsInf(b) /\ b.n > 0)
    ELSE IF IsInf(b) THEN b.n > 0
    ELSE a.n * b.d <= b.n * a.d

FMul(a, b) ==
    IF IsNaN(a) \/ IsNaN(b) THEN NaN
    ELSE IF IsInf(a) \/ IsInf(b)
         THEN IF Sign(a) * Sign(b) = 0 THEN NaN
              ELSE IF Sign(a) * Sign(b) > 0 THEN Inf ELSE NegInf
    ELSE Frac(a.n * b.n, a.d * b.d)

\* numpy float division: x/0 is +-inf, 0/0 is NaN, no exception
FDiv(a, b) ==
    IF IsNaN(a) \/ IsNaN(b) THEN NaN
    ELSE IF IsInf(a)
         THEN IF IsInf(b) THEN NaN
              ELSE IF Sign(a) * (IF Sign(b) < 0 THEN -1 ELSE 1) > 0 THEN Inf ELSE NegInf
    ELSE IF IsInf(b) THEN Num(0)
    ELSE IF b.n = 0
         THEN IF a.n = 0 THEN NaN ELSE IF a.n > 0 THEN Inf ELSE NegInf
    ELSE Frac(a.n * b.d * Sign(b), a.d * Abs(b.n))

FAdd(a, b) ==
    IF IsNaN(a) \/ IsNaN(b) THEN NaN
    ELSE IF IsInf(a) THEN IF IsInf(b) /\ a.n # b.n THEN NaN ELSE a
    ELSE IF IsInf(b) THEN b
    ELSE Frac(a.n * b.d + b.n * a.d, a.d * b.d)

-----------------------------------------------------------------------------
(* data_utils.py: constants and the classifier *)

AFFORDABILITY_ORDER ==
    << "Affordable",
       "Moderately Unaffordable",
       "Seriously Unaffordable",
       "Severely Unaffordable",
       "Impossibly Unaffordable" >>

\* Python None
None == "None"

\* the ratio compared with the thresholds by "pti < t" in place of "pti <= t"
classify_strict(pti) ==
    IF IsNaN(pti) THEN None
    ELSE IF Leq(pti, Frac(30, 10)) /\ pti # Frac(30, 10) THEN "Affordable"
    ELSE IF Leq(pti, Frac(40, 10)) /\ pti # Frac(40, 10) THEN "Moderately Unaffordable"
    ELSE IF Leq(pti, Frac(50, 10)) /\ pti # Frac(50, 10) THEN "Seriously Unaffordable"
    ELSE IF Leq(pti, Frac(89, 10)) /\ pti # Frac(89, 10) THEN "Severely Unaffordable"
    ELSE "Impossibly Unaffordable"

\* the names of the second and third band exchanged
classify_swapped(pti) ==
    IF IsNaN(pti) THEN None
    ELSE IF Leq(pti, Frac(30, 10)) THEN "Affordable"
    ELSE IF Leq(pti, Frac(40, 10)) THEN "Seriously Unaffordable"
    ELSE IF Leq(pti, Frac(50, 10)) THEN "Moderately Unaffordable"
    ELSE IF Leq(pti, Frac(89, 10)) THEN "Severely Unaffordable"
    ELSE "Impossibly Unaffordable"

classify_affordability(pti) ==
    IF IsNaN(pti) THEN None
    ELSE IF Leq(pti, Frac(30, 10)) THEN "Affordable"
    ELSE IF Leq(pti, Frac(40, 10)) THEN "Moderately Unaffordable"
    ELSE IF Leq(pti, Frac(50, 10)) THEN "Seriously Unaffordable"
    ELSE IF Leq(pti, Frac(89, 10)) THEN "Severely Unaffordable"
    ELSE "Impossibly Unaffordable"

-----------------------------------------------------------------------------
(* Tables *)

\* a name bound to no table (the step that makes it has not run, or raised)
NoTable == [n |-> -1, col |-> <<>>]

Made(t) == t.n >= 0

\* tab 2 of the page not rendered yet
NoTab == [made |-> FALSE, top |-> {}, bottom |-> {}, top7 |-> {}, bottom7 |-> {}]
Columns(t) == DOMAIN t.col
Rows(t) == 1..t.n

\* df[name] = cells: adds the column or overwrites it
SetCol(t, name, cells) == [t EXCEPT !.col = (name :> cells) @@ t.col]

\* the members of S in descending order of key[x]
RECURSIVE SortDescending(_, _)
SortDescending(S, key) ==
    IF S = {} THEN <<>>
    ELSE LET m == CHOOSE x \in S : \A y \in S : key[x] >= key[y]
         IN <<m>> \o SortDescending(S \ {m}, key)

\* the members of S in ascending order of key[x]
RECURSIVE SortByKey(_, _)
SortByKey(S, key) ==
    IF S = {} THEN <<>>
    ELSE LET m == CHOOSE x \in S : \A y \in S : key[x] <= key[y]
         IN <<m>> \o SortByKey(S \ {m}, key)

\* the smallest / largest member of a non-empty set of integers
MinOf(S) == CHOOSE x \in S : \A y \in S : x <= y
MaxOf(S) == CHOOSE x \in S : \A y \in S : x >= y

RECURSIVE FSum(_, _)
FSum(cells, S) ==
    IF S = {} THEN Num(0)
    ELSE LET i == CHOOSE x \in S : TRUE
         IN FAdd(cells[i], FSum(cells, S \ {i}))

\* the mean with NaN not skipped: NaN as soon as one cell is NaN
mean_keep_nan(cells, S) ==
    IF S = {} THEN NaN ELSE FDiv(FSum(cells, S), Num(Cardinality(S)))

\* pandas mean of the cells at the rows S, NaN skipped; NaN when none is left
Mean(cells, S) ==
    LET present == {i \in S : ~IsNaN(cells[i])}
    IN IF present = {} THEN NaN
       ELSE FDiv(FSum(cells, present), Num(Cardinality(present)))


-----------------------------------------------------------------------------
(* data_utils.py: add_derived_columns *)

\* a date of the CSV, "YYYY-MM-01", is <<YYYY, MM>>; a parsed timestamp is
\* the number of months since year 0
to_datetime(s) == s[1] * 12 + (s[2] - 1)
dt_year(t) == t \div 12

AVERAGE_HOUSEHOLD_SIZE == Frac(251, 100)

\* the denominator used as it is, zero included
keep_zero(v) == v

\* Series.replace(0, np.nan) on one cell
replace_zero(v) == IF IsZero(v) THEN NaN ELSE v

\* the derived columns written into the caller's table
frame_alias(df_raw) == [obj |-> "arg", tbl |-> df_raw]

\* df = df_raw.copy(): df names a new table with the same cells
frame_copy(df_raw) == [obj |-> "new", tbl |-> df_raw]

\* the year column the table came with kept when there is one
year_column_kept(t) ==
    IF "year" \in Columns(t) THEN t.col["year"]
    ELSE [i \in Rows(t) |-> dt_year(t.col["date"][i])]

\* df["date"].dt.year
year_column(t) == [i \in Rows(t) |-> dt_year(t.col["date"][i])]

\* the call add_derived_columns(df_raw): arg is the caller's table after the
\* call, ret the returned table, err the exception raised (None: none)
add_derived_columns(df_raw) ==
    LET fr == frame_copy(df_raw)
        Out(t, e) == [arg |-> IF fr.obj = "arg" THEN t ELSE df_raw,
                      ret |-> IF e = None THEN t ELSE NoTable,
                      err |-> e]
        t0 == fr.tbl
        R == Rows(t0)
    IN  IF "date" \notin Columns(t0) THEN Out(t0, "KeyError")
        ELSE
        LET t1 == SetCol(t0, "date", [i \in R |-> to_datetime(t0.col["date"][i])])
            t2 == SetCol(t1, "year", year_column(t1))
        IN  IF "Per Capita Income" \notin Columns(t2) THEN Out(t2, "KeyError")
            ELSE IF "Median Rent" \notin Columns(t2) THEN Out(t2, "KeyError")
            ELSE
            LET income_pc == [i \in R |-> replace_zero(t2.col["Per Capita Income"][i])]
                rent == [i \in R |-> replace_zero(t2.col["Median Rent"][i])]
                est == [i \in R |-> FMul(income_pc[i], AVERAGE_HOUSEHOLD_SIZE)]
                t3 == SetCol(t2, "median_household_income_est", est)
            IN  IF "median_sale_price" \notin Columns(t3) THEN Out(t3, "KeyError")
                ELSE
                LET price == t3.col["median_sale_price"]
                    pti == [i \in R |-> FDiv(price[i], est[i])]
                    t4 == SetCol(t3, "price_to_income", pti)
                    t5 == SetCol(t4, "rent_to_income",
                                 [i \in R |-> FDiv(FMul(rent[i], Num(12)), est[i])])
                    t6 == SetCol(t5, "price_to_rent",
                                 [i \in R |-> FDiv(price[i], FMul(rent[i], Num(12)))])
                    t7 == SetCol(t6, "affordability_rating",
                                 [i \in R |-> classify_affordability(pti[i])])
                IN  Out(t7, None)

-----------------------------------------------------------------------------
(* data_utils.py: composite_series *)

\* .iloc[-1]: the last of the rows S
last_row(S) == MaxOf(S)

\* .iloc[0]: the first of the rows S, in the table's row order
first_row(S) == MinOf(S)

\* the call composite_series(df): ret the returned table, err the exception
composite_series(d) ==
    LET date == d.col["date"]
        \* groupby("date") sorts the group keys
        keys == SortByKey({date[i] : i \in Rows(d)}, [x \in {date[i] : i \in Rows(d)} |-> x])
        G == 1..Len(keys)
        members == [g \in G |-> {i \in Rows(d) : date[i] = keys[g]}]
        cprice == [g \in G |-> Mean(d.col["median_sale_price"], members[g])]
        cincome == [g \in G |-> Mean(d.col["median_household_income_est"], members[g])]
        cpti == [g \in G |-> Mean(d.col["price_to_income"], members[g])]
        in_first_year == {g \in G : dt_year(keys[g]) = MinOf({dt_year(keys[h]) : h \in G})}
    IN  IF in_first_year = {} THEN [ret |-> NoTable, err |-> "IndexError"]
        ELSE
        LET base == first_row(in_first_year)
            grouped ==
                [n |-> Len(keys),
                 col |-> [c \in {"date", "composite_price", "composite_income",
                                 "composite_pti", "price_index", "income_index",
                                 "year", "affordability_rating"} |->
                     CASE c = "date" -> keys
                       [] c = "composite_price" -> cprice
                       [] c = "composite_income" -> cincome
                       [] c = "composite_pti" -> cpti
                       [] c = "price_index" ->
                            [g \in G |-> FMul(FDiv(cprice[g], cprice[base]), Num(100))]
                       [] c = "income_index" ->
                            [g \in G |-> FMul(FDiv(cincome[g], cincome[base]), Num(100))]
                       [] c = "year" -> [g \in G |-> dt_year(keys[g])]
                       [] c = "affordability_rating" ->
                            [g \in G |-> classify_affordability(cpti[g])]]]
        IN  [ret |-> grouped, err |-> None]

-----------------------------------------------------------------------------
(* data_utils.py: yearly_metro_summary *)

\* the metro names of the model, in the order pandas sorts strings
CityOrder ==
    <<"Atlanta", "Boston", "Chicago", "Dallas", "Denver", "Houston", "Miami", "Seattle">>
StrRank(s) == CHOOSE i \in 1..Len(CityOrder) : CityOrder[i] = s

\* the (city_full, year) pairs of the rows in which a ratio is not missing
metro_year_keys_dropna(d) ==
    {<<d.col["city_full"][i], d.col["year"][i]>> :
        i \in {j \in Rows(d) : ~IsNaN(d.col["price_to_income"][j])
                               \/ ~IsNaN(d.col["rent_to_income"][j])}}

\* the group keys of groupby(["city_full", "year"])
metro_year_keys(d) == {<<d.col["city_full"][i], d.col["year"][i]>> : i \in Rows(d)}

yearly_metro_summary(d) ==
    IF "city_full" \notin Columns(d) THEN [ret |-> NoTable, err |-> "KeyError"]
    ELSE
    LET city == d.col["city_full"]
        year == d.col["year"]
        pairs == metro_year_keys(d)
        \* groupby(["city_full", "year"]) sorts the group keys
        keys == SortByKey(pairs, [x \in pairs |-> StrRank(x[1]) * 10000 + x[2]])
        G == 1..Len(keys)
        members == [g \in G |-> {i \in Rows(d) : <<city[i], year[i]>> = keys[g]}]
        pti == [g \in G |-> Mean(d.col["price_to_income"], members[g])]
        rti == [g \in G |-> Mean(d.col["rent_to_income"], members[g])]
    IN  [ret |-> [n |-> Len(keys),
                  col |-> [c \in {"city_full", "year", "price_to_income",
                                  "rent_to_income", "affordability_rating"} |->
                      CASE c = "city_full" -> [g \in G |-> keys[g][1]]
                        [] c = "year" -> [g \in G |-> keys[g][2]]
                        [] c = "price_to_income" -> pti
                        [] c = "rent_to_income" -> rti
                        [] c = "affordability_rating" ->
                             [g \in G |-> classify_affordability(pti[g])]]],
         err |-> None]

-----------------------------------------------------------------------------
(* data_utils.py: affordability_counts_by_year, latest_year *)

\* the band names in the order pandas sorts strings
AlphaOrder ==
    << "Affordable",
       "Impossibly Unaffordable",
       "Moderately Unaffordable",
       "Seriously Unaffordable",
       "Severely Unaffordable" >>

AlphaRank(b) == CHOOSE i \in 1..Len(AlphaOrder) : AlphaOrder[i] = b

\* the rating left a string column: sort_values orders it by the alphabet
string_code(b) == AlphaRank(b)

\* the code of a band in pd.Categorical(categories=AFFORDABILITY_ORDER)
CategoryCode(b) == CHOOSE i \in 1..Len(AFFORDABILITY_ORDER) : AFFORDABILITY_ORDER[i] = b

\* the number of rows of the key's year, whatever their rating
year_size(s, key) == Cardinality({i \in Rows(s) : s.col["year"][i] = key[1]})

\* .size(): the number of rows of the group of the key <<year, rating>>
group_size(s, key) ==
    Cardinality({i \in Rows(s) :
        <<s.col["year"][i], s.col["affordability_rating"][i]>> = key})

affordability_counts_by_year(s) ==
    LET year == s.col["year"]
        rating == s.col["affordability_rating"]
        \* groupby drops the rows whose key is missing
        pairs == {<<year[i], rating[i]>> : i \in {j \in Rows(s) : rating[j] # None}}
        grouped == SortByKey(pairs, [x \in pairs |-> x[1] * 10 + AlphaRank(x[2])])
        size == [g \in 1..Len(grouped) |-> group_size(s, grouped[g])]
        \* sort_values(["year", "affordability_rating"]) on the categorical
        order == SortByKey(1..Len(grouped),
                           [g \in 1..Len(grouped) |->
                               grouped[g][1] * 10 + CategoryCode(grouped[g][2])])
        G == 1..Len(order)
    IN  [ret |-> [n |-> Len(order),
                  col |-> [c \in {"year", "affordability_rating", "n_metros"} |->
                      CASE c = "year" -> [g \in G |-> grouped[order[g]][1]]
                        [] c = "affordability_rating" -> [g \in G |-> grouped[order[g]][2]]
                        [] c = "n_metros" -> [g \in G |-> size[order[g]]]]],
         err |-> None]

\* year_latest before latest_year has returned
NoYear == 0

\* int(summary["year"].max()): the maximum of no rows is NaN, int(NaN) raises
latest_year(s) ==
    IF s.n = 0 THEN [ret |-> NoYear, err |-> "ValueError"]
    ELSE [ret |-> MaxOf({s.col["year"][i] : i \in Rows(s)}), err |-> None]

-----------------------------------------------------------------------------
(* The raw tables load_raw_data may return *)

RequiredColumns ==
    {"date", "median_sale_price", "Median Rent", "Per Capita Income", "city_full"}

\* all the required columns, or all but one
ColumnSets == {RequiredColumns} \cup {RequiredColumns \ {c} : c \in RequiredColumns}

RawDates == {<<2012, 1>>, <<2012, 7>>, <<2013, 1>>}
CityNames == {CityOrder[1], CityOrder[2]}

\* <<median_sale_price, Median Rent, Per Capita Income>> of a row: two
\* ordinary rows (ratio 2 and ratio 10) and one row for each field being
\* zero or missing
Measurements ==
    { <<Num(502), Num(10), Num(100)>>,
      <<Num(2510), Num(10), Num(100)>>,
      <<Num(0), Num(10), Num(100)>>,
      <<NaN, Num(10), Num(100)>>,
      <<Num(502), Num(0), Num(100)>>,
      <<Num(502), NaN, Num(100)>>,
      <<Num(502), Num(10), Num(0)>>,
      <<Num(502), Num(10), NaN>> }

RawRows ==
    { [k \in RequiredColumns |->
          CASE k = "date" -> d
            [] k = "city_full" -> c
            [] k = "median_sale_price" -> m[1]
            [] k = "Median Rent" -> m[2]
            [] k = "Per Capita Income" -> m[3]] :
      d \in RawDates, c \in CityNames, m \in Measurements }

\* the rows of a CSV that has only the columns present
RawRowsOf(present) == {[k \in present |-> r[k]] : r \in RawRows}

\* the table of the given rows with the columns present
TableOf(rows, present) ==
    [n |-> Len(rows),
     col |-> [k \in present |-> [i \in 1..Len(rows) |-> rows[i][k]]]]

NoBand == "unset"

\* the part of the state the classifier's own specification does not use
PipelineIdle ==
    /\ pc = "idle"
    /\ raw = NoTable /\ df = NoTable /\ comp = NoTable
    /\ summary = NoTable /\ counts = NoTable
    /\ year_latest = NoYear /\ err = None
    /\ tab2 = NoTab

\* app.py after raw = load_raw_data()
Init ==
    /\ pc = "derive"
    /\ \E n \in 0..MaxRows, present \in ColumnSets :
         \E rows \in [1..n -> RawRowsOf(present)] : raw = TableOf(rows, present)
    /\ df = NoTable /\ comp = NoTable /\ summary = NoTable /\ counts = NoTable
    /\ year_latest = NoYear
    /\ err = None
    /\ pti_in = NaN
    /\ band_out = NoBand
    /\ tab2 = NoTab

-----------------------------------------------------------------------------
(* app.py: load & prep data.  An exception ends the script run. *)

\* df = add_derived_columns(raw)
Derive ==
    /\ pc = "derive"
    /\ LET r == add_derived_columns(raw)
       IN  /\ raw' = r.arg
           /\ df' = r.ret
           /\ err' = r.err
           /\ pc' = IF r.err = None THEN "composite" ELSE "error"
    /\ UNCHANGED <<comp, summary, counts, year_latest, pti_in, band_out, tab2>>

\* comp = composite_series(df)
Composite ==
    /\ pc = "composite"
    /\ LET r == composite_series(df)
       IN  /\ comp' = r.ret
           /\ err' = r.err
           /\ pc' = IF r.err = None THEN "summary" ELSE "error"
    /\ UNCHANGED <<raw, df, summary, counts, year_latest, pti_in, band_out, tab2>>

\* summary = yearly_metro_summary(df)
Summarize ==
    /\ pc = "summary"
    /\ LET r == yearly_metro_summary(df)
       IN  /\ summary' = r.ret
           /\ err' = r.err
           /\ pc' = IF r.err = None THEN "counts" ELSE "error"
    /\ UNCHANGED <<raw, df, comp, counts, year_latest, pti_in, band_out, tab2>>

\* counts = affordability_counts_by_year(summary)
Count ==
    /\ pc = "counts"
    /\ LET r == affordability_counts_by_year(summary)
       IN  /\ counts' = r.ret
           /\ err' = r.err
           /\ pc' = IF r.err = None THEN "latest" ELSE "error"
    /\ UNCHANGED <<raw, df, comp, summary, year_latest, pti_in, band_out, tab2>>

\* year_latest = latest_year(summary)
Latest ==
    /\ pc = "latest"
    /\ LET r == latest_year(summary)
       IN  /\ year_latest' = r.ret
           /\ err' = r.err
           /\ pc' = IF r.err = None THEN "done" ELSE "error"
    /\ UNCHANGED <<raw, df, comp, summary, counts, pti_in, band_out, tab2>>

Next == Derive \/ Composite \/ Summarize \/ Count \/ Latest

Spec == Init /\ [][Next]_vars

-----------------------------------------------------------------------------
(* The classifier on its own *)

\* the ratios k/100 handed to the classifier, and NaN
PtiInputs == {NaN} \cup {Frac(k, 100) : k \in (0 - 100)..MaxPti}

InitClassify ==
    /\ PipelineIdle
    /\ pti_in \in PtiInputs
    /\ band_out = NoBand

\* band_out = classify_affordability(pti_in)
Classify ==
    /\ band_out = NoBand
    /\ band_out' = classify_affordability(pti_in)
    /\ UNCHANGED <<pc, raw, df, comp, summary, counts, year_latest, err, pti_in, tab2>>

NextClassify == Classify

SpecClassify == InitClassify /\ [][NextClassify]_vars

-----------------------------------------------------------------------------
(* Properties *)

Bands == {AFFORDABILITY_ORDER[i] : i \in 1..Len(AFFORDABILITY_ORDER)}

\* the ratio k/100 as the integer k
Hundredths(v) == (v.n * 100) \div v.d

\* the band the thresholds 3.0, 4.0, 5.0, 8.9 give a ratio of h hundredths
BandOfHundredths(h) ==
    CASE h <= 300 -> "Affordable"
      [] 300 < h /\ h <= 400 -> "Moderately Unaffordable"
      [] 400 < h /\ h <= 500 -> "Seriously Unaffordable"
      [] 500 < h /\ h <= 890 -> "Severely Unaffordable"
      [] 890 < h -> "Impossibly Unaffordable"

\* C1: classify_affordability gives every ratio that is not NaN exactly the
\* band of the inclusive upper bounds 3.0, 4.0, 5.0, 8.9 (3.0 is Affordable,
\* 3.1 Moderately, 8.9 Severely, 8.91 Impossibly Unaffordable), and gives
\* None exactly when the ratio is NaN.
C1_ClassifyBands ==
    band_out # NoBand =>
        /\ (band_out = None) <=> IsNaN(pti_in)
        /\ ~IsNaN(pti_in) =>
              /\ band_out \in Bands
              /\ band_out = BandOfHundredths(Hundredths(pti_in))
        /\ pti_in = Frac(300, 100) => band_out = "Affordable"
        /\ pti_in = Frac(310, 100) => band_out = "Moderately Unaffordable"
        /\ pti_in = Frac(890, 100) => band_out = "Severely Unaffordable"
        /\ pti_in = Frac(891, 100) => band_out = "Impossibly Unaffordable"

\* C1 witness: the ratio 8.9, on the last inclusive bound, has been classified
C1_Witness == pti_in = Frac(890, 100) /\ band_out = "Severely Unaffordable"

\* a cell that is zero or missing
ZeroOrMissing(v) == IsNaN(v) \/ IsZero(v)

DerivedRatios == {"price_to_income", "rent_to_income", "price_to_rent"}

\* the columns add_derived_columns reads
DeriveInputs == {"date", "median_sale_price", "Median Rent", "Per Capita Income"}

\* C2: in every enriched row, Per Capita Income zero or missing makes
\* median_household_income_est, price_to_income and rent_to_income NaN and
\* the rating None; Median Rent zero or missing makes rent_to_income and
\* price_to_rent NaN; no derived ratio is infinite, and a raw table that has
\* the columns read is enriched without an exception.
C2_NullSafeRatios ==
    /\ Made(df) =>
          \A i \in Rows(df) :
              /\ ZeroOrMissing(df.col["Per Capita Income"][i]) =>
                    /\ IsNaN(df.col["median_household_income_est"][i])
                    /\ IsNaN(df.col["price_to_income"][i])
                    /\ IsNaN(df.col["rent_to_income"][i])
                    /\ df.col["affordability_rating"][i] = None
              /\ ZeroOrMissing(df.col["Median Rent"][i]) =>
                    /\ IsNaN(df.col["rent_to_income"][i])
                    /\ IsNaN(df.col["price_to_rent"][i])
              /\ \A c \in DerivedRatios \cup {"median_household_income_est"} :
                    ~IsInf(df.col[c][i])
    /\ (pc # "derive" /\ DeriveInputs \subseteq Columns(raw)) => Made(df)

\* C2 witness: an enriched table with a row of zero income and a row of zero rent
C2_Witness ==
    /\ Made(df)
    /\ \E i \in Rows(df) : IsZero(df.col["Per Capita Income"][i])
    /\ \E i \in Rows(df) : IsZero(df.col["Median Rent"][i])

\* the position of the base row of a composite table: the first row of the
\* minimum year
BaseOf(t) ==
    LET first_year == MinOf({t.col["year"][g] : g \in Rows(t)})
    IN  MinOf({g \in Rows(t) : t.col["year"][g] = first_year})

Usable(v) == IsNum(v) /\ v.n # 0

\* C3: the base of the composite table is its first row of the minimum
\* year; every row has price_index = 100 * composite_price / base price and
\* income_index = 100 * composite_income / base income; a base row whose
\* price and income are neither missing nor zero has both indexes 100.
C3_IndexOnFirstRowOfMinYear ==
    Made(comp) =>
        LET b == BaseOf(comp)
            bp == comp.col["composite_price"][b]
            bi == comp.col["composite_income"][b]
        IN  /\ \A g \in Rows(comp) :
                  /\ comp.col["price_index"][g] =
                        FDiv(FMul(Num(100), comp.col["composite_price"][g]), bp)
                  /\ comp.col["income_index"][g] =
                        FDiv(FMul(Num(100), comp.col["composite_income"][g]), bi)
            /\ (Usable(bp) /\ Usable(bi)) =>
                  /\ comp.col["price_index"][b] = Num(100)
                  /\ comp.col["income_index"][b] = Num(100)

\* C3 witness: a composite table with two rows in the minimum year that
\* differ in composite_price, and a usable base
C3_Witness ==
    /\ Made(comp)
    /\ comp.n = 2
    /\ comp.col["year"][1] = comp.col["year"][2]
    /\ comp.col["composite_price"][1] # comp.col["composite_price"][2]
    /\ Usable(comp.col["composite_price"][1])
    /\ Usable(comp.col["composite_price"][2])
    /\ Usable(comp.col["composite_income"][1])
    /\ comp.col["price_index"][1] = Num(100)


\* composite_series(df) has been called and has returned or raised
CompositeRan == Made(df) /\ pc \notin {"derive", "composite"}

\* the enriched rows of the earliest date: the group of the base row
BaseGroup(d) ==
    {i \in Rows(d) : d.col["date"][i] = MinOf({d.col["date"][j] : j \in Rows(d)})}

\* the enriched table is empty, or the composite price or income of the base
\* row is zero or missing
InvalidBase(d) ==
    \/ d.n = 0
    \/ ZeroOrMissing(Mean(d.col["median_sale_price"], BaseGroup(d)))
    \/ ZeroOrMissing(Mean(d.col["median_household_income_est"], BaseGroup(d)))

\* C4: composite_series raises and returns no table whenever the enriched
\* table (of a raw table with all the required columns) is empty or the
\* base row's composite_price or composite_income is zero or missing.
C4_InvalidBaseRaises ==
    (CompositeRan /\ Columns(raw) = RequiredColumns /\ InvalidBase(df)) =>
        (~Made(comp) /\ pc = "error")

\* the (city_full, year) pairs of the enriched table with a ratio present
PairsWithRatio(d) ==
    {<<d.col["city_full"][i], d.col["year"][i]>> :
        i \in {j \in Rows(d) : ~IsNaN(d.col["price_to_income"][j])
                               \/ ~IsNaN(d.col["rent_to_income"][j])}}

\* all the (city_full, year) pairs of the enriched table
AllPairs(d) == {<<d.col["city_full"][i], d.col["year"][i]>> : i \in Rows(d)}

\* the (city_full, year) pairs of the rows of the summary
SummaryPairs(t) == {<<t.col["city_full"][g], t.col["year"][g]>> : g \in Rows(t)}

\* C5 as claimed: the summary has as many rows as there are (city_full,
\* year) pairs with a price_to_income or rent_to_income that is not missing.
C5_RowsPerPairWithRatio ==
    Made(summary) => summary.n = Cardinality(PairsWithRatio(df))

\* C5 amended: the summary has exactly one row for each (city_full, year)
\* pair of the enriched table, the pairs whose ratios are all missing
\* included: such a pair has a row with both means NaN and the rating None.
C5_RowsPerPair ==
    Made(summary) =>
        /\ summary.n = Cardinality(AllPairs(df))
        /\ SummaryPairs(summary) = AllPairs(df)
        /\ \A g \in Rows(summary) :
              <<summary.col["city_full"][g], summary.col["year"][g]>>
                  \notin PairsWithRatio(df) =>
                  /\ IsNaN(summary.col["price_to_income"][g])
                  /\ IsNaN(summary.col["rent_to_income"][g])
                  /\ summary.col["affordability_rating"][g] = None

\* C5 witness: a summary with a row for a pair whose ratios are all missing
C5_Witness ==
    /\ Made(summary)
    /\ \E g \in Rows(summary) :
          <<summary.col["city_full"][g], summary.col["year"][g]>>
              \notin PairsWithRatio(df)

\* the summary rows of the year y rated b
RatedRows(t, y, b) ==
    {i \in Rows(t) : t.col["year"][i] = y /\ t.col["affordability_rating"][i] = b}

\* C6: the counts have exactly one row for each (year, band) that some
\* summary row has, with n_metros the number of those summary rows; rows
\* rated None are counted nowhere and no row has n_metros = 0.
C6_CountsPerYearBand ==
    Made(counts) =>
        /\ \A y \in {summary.col["year"][i] : i \in Rows(summary)}, b \in Bands :
              LET hits == {g \in Rows(counts) :
                              /\ counts.col["year"][g] = y
                              /\ counts.col["affordability_rating"][g] = b}
              IN  IF RatedRows(summary, y, b) = {} THEN hits = {}
                  ELSE /\ Cardinality(hits) = 1
                       /\ \A g \in hits :
                             counts.col["n_metros"][g] =
                                 Cardinality(RatedRows(summary, y, b))
        /\ \A g \in Rows(counts) :
              /\ counts.col["affordability_rating"][g] \in Bands
              /\ counts.col["n_metros"][g] > 0
              /\ RatedRows(summary, counts.col["year"][g],
                           counts.col["affordability_rating"][g]) # {}

\* C6 witness: counts made from a summary with a row rated None and, in the
\* same year, a rated row
C6_Witness ==
    /\ Made(counts)
    /\ counts.n = 1
    /\ summary.n = 2
    /\ summary.col["year"][1] = summary.col["year"][2]
    /\ \E i \in Rows(summary) : summary.col["affordability_rating"][i] = None

\* C7: when composite_series has raised on the enriched table of a raw table
\* with all the required columns, the run does not end before the summary
\* and the counts of that table are produced.
C7_CompositeFailureIsolated ==
    (pc = "error" /\ Columns(raw) = RequiredColumns /\ Made(df) /\ ~Made(comp)) =>
        (Made(summary) /\ Made(counts))

\* C8: a raw table that lacks a required column gets no enriched table, and
\* no aggregator runs on it.
C8_MissingColumnAborts ==
    (pc # "derive" /\ \E c \in RequiredColumns : c \notin Columns(raw)) =>
        /\ ~Made(df) /\ ~Made(comp) /\ ~Made(summary) /\ ~Made(counts)
        /\ pc = "error"

\* C9: every step leaves its input as it was: the raw table never changes,
\* and the enriched table and the summary do not change once made.
C9_InputsUnchanged ==
    [][/\ raw' = raw
       /\ Made(df) => df' = df
       /\ Made(summary) => summary' = summary]_vars

\* C9 witness: the whole pipeline has run on a raw table with rows, and the
\* raw table has none of the derived columns of the enriched table
C9_Witness ==
    /\ pc = "done"
    /\ raw.n > 0
    /\ "price_to_income" \in Columns(df)
    /\ Columns(raw) = RequiredColumns

\* the rows of the enriched table in the group of the summary row g
GroupRows(g) ==
    {i \in Rows(df) :
        /\ df.col["city_full"][i] = summary.col["city_full"][g]
        /\ df.col["year"][i] = summary.col["year"][g]}

\* the band of the mean of the ratios at the rows S that are not missing,
\* from their sum: mean <= t exactly when 10 * sum <= 10t * count
BandOfSum(cells, S) ==
    LET present == {i \in S : ~IsNaN(cells[i])}
        k == Cardinality(present)
        total == FSum(cells, present)
        Within(t10) == Leq(FMul(total, Num(10)), Num(t10 * k))
    IN  IF present = {} THEN None
        ELSE IF Within(30) THEN "Affordable"
        ELSE IF Within(40) THEN "Moderately Unaffordable"
        ELSE IF Within(50) THEN "Seriously Unaffordable"
        ELSE IF Within(89) THEN "Severely Unaffordable"
        ELSE "Impossibly Unaffordable"

\* C10: the rating of every summary row is the band of the mean of its
\* group's price_to_income values that are not missing (None when there is
\* none), whatever the ratings of the group's rows.
C10_RatingOfGroupMean ==
    Made(summary) =>
        \A g \in Rows(summary) :
            summary.col["affordability_rating"][g] =
                BandOfSum(df.col["price_to_income"], GroupRows(g))

\* C10 witness: a summary row whose rating is the rating of none of the
\* rows of its group
C10_Witness ==
    /\ Made(summary)
    /\ \E g \in Rows(summary) :
          /\ summary.col["affordability_rating"][g] # None
          /\ \A i \in GroupRows(g) :
                /\ df.col["affordability_rating"][i] # None
                /\ df.col["affordability_rating"][i] #
                       summary.col["affordability_rating"][g]


\* the position of a band in the fixed order Affordable < Moderately <
\* Seriously < Severely < Impossibly Unaffordable
BandRank(b) ==
    CASE b = "Affordable" -> 1
      [] b = "Moderately Unaffordable" -> 2
      [] b = "Seriously Unaffordable" -> 3
      [] b = "Severely Unaffordable" -> 4
      [] b = "Impossibly Unaffordable" -> 5

\* C11: the classifier is monotonic: the band of every ratio r1 below the
\* classified ratio r2 has a rank in AFFORDABILITY_ORDER that is at most the
\* rank of the band of r2, and the band of every ratio that is not NaN is a
\* member of AFFORDABILITY_ORDER at the position of its rank.
C11_ClassifyMonotonic ==
    (band_out # NoBand /\ ~IsNaN(pti_in)) =>
        /\ band_out \in Bands
        /\ AFFORDABILITY_ORDER[BandRank(band_out)] = band_out
        /\ \A r1 \in PtiInputs :
              (~IsNaN(r1) /\ Leq(r1, pti_in) /\ r1 # pti_in) =>
                  BandRank(classify_affordability(r1)) <= BandRank(band_out)

\* C11 witness: the ratio 4.5 has been classified, with ratios below it in
\* each of the two lower bands
C11_Witness ==
    /\ pti_in = Frac(450, 100)
    /\ band_out = "Seriously Unaffordable"
    /\ Frac(350, 100) \in PtiInputs
    /\ Frac(250, 100) \in PtiInputs


-----------------------------------------------------------------------------
(* The pipeline on raw tables that come with a year column of their own *)

\* the cells of the year column of the CSV: a year no date has, and the
\* years of the dates
YearCells == {1999, 2012, 2013}

\* the two ordinary rows of Measurements
OrdinaryMeasurements ==
    {<<Num(502), Num(10), Num(100)>>, <<Num(2510), Num(10), Num(100)>>}

YearRows ==
    { [k \in RequiredColumns \cup {"year"} |->
          CASE k = "date" -> d
            [] k = "city_full" -> c
            [] k = "median_sale_price" -> m[1]
            [] k = "Median Rent" -> m[2]
            [] k = "Per Capita Income" -> m[3]
            [] k = "year" -> y] :
      d \in RawDates, c \in CityNames, m \in OrdinaryMeasurements, y \in YearCells }

\* app.py after raw = load_raw_data(), the CSV with or without a year column
InitYear ==
    /\ pc = "derive"
    /\ \E n \in 0..MaxRows, present \in {RequiredColumns, RequiredColumns \cup {"year"}} :
         \E rows \in [1..n -> {[k \in present |-> r[k]] : r \in YearRows}] :
            raw = TableOf(rows, present)
    /\ df = NoTable /\ comp = NoTable /\ summary = NoTable /\ counts = NoTable
    /\ year_latest = NoYear
    /\ err = None
    /\ pti_in = NaN
    /\ band_out = NoBand
    /\ tab2 = NoTab

SpecYear == InitYear /\ [][Next]_vars

\* C12: in every enriched row, year is the calendar year of the row's date,
\* whatever the year column of the raw table held and whether it had one.
C12_YearFromDate ==
    Made(df) =>
        \A i \in Rows(df) :
            /\ df.col["year"][i] = raw.col["date"][i][1]
            /\ df.col["year"][i] = dt_year(df.col["date"][i])

\* C12 witness: an enriched table whose raw table came with a year cell
\* that is not the year of the row's date
C12_Witness ==
    /\ Made(df)
    /\ "year" \in Columns(raw)
    /\ \E i \in Rows(raw) : raw.col["year"][i] # raw.col["date"][i][1]


-----------------------------------------------------------------------------
(* The pipeline on raw tables with a row for every band *)

\* <<median_sale_price, Median Rent, Per Capita Income>>: the ratios 2, 3.5,
\* 4.5, 6 and 10, one in each band, and a row without income
BandMeasurements ==
    { <<Num(502), Num(10), Num(100)>>,
      <<Frac(1757, 2), Num(10), Num(100)>>,
      <<Frac(2259, 2), Num(10), Num(100)>>,
      <<Num(1506), Num(10), Num(100)>>,
      <<Num(2510), Num(10), Num(100)>>,
      <<Num(502), Num(10), NaN>> }

BandRows ==
    { [k \in RequiredColumns |->
          CASE k = "date" -> d
            [] k = "city_full" -> c
            [] k = "median_sale_price" -> m[1]
            [] k = "Median Rent" -> m[2]
            [] k = "Per Capita Income" -> m[3]] :
      d \in {<<2012, 1>>, <<2013, 1>>}, c \in CityNames, m \in BandMeasurements }

\* app.py after raw = load_raw_data()
InitBands ==
    /\ pc = "derive"
    /\ \E n \in 0..MaxRows :
         \E rows \in [1..n -> BandRows] : raw = TableOf(rows, RequiredColumns)
    /\ df = NoTable /\ comp = NoTable /\ summary = NoTable /\ counts = NoTable
    /\ year_latest = NoYear
    /\ err = None
    /\ pti_in = NaN
    /\ band_out = NoBand
    /\ tab2 = NoTab

SpecBands == InitBands /\ [][Next]_vars

\* C13: the rows of the counts are in ascending order of year and, within a
\* year, in the fixed band order (not the alphabetical one): (year, band
\* rank) increases strictly from each row to the next.
C13_CountsOrdered ==
    Made(counts) =>
        \A g \in 1..(counts.n - 1) :
            \/ counts.col["year"][g] < counts.col["year"][g + 1]
            \/ /\ counts.col["year"][g] = counts.col["year"][g + 1]
               /\ BandRank(counts.col["affordability_rating"][g]) <
                      BandRank(counts.col["affordability_rating"][g + 1])

\* C13 witness: counts of one year with the bands Severely and Impossibly
\* Unaffordable, which the alphabet orders the other way round
C13_Witness ==
    /\ Made(counts)
    /\ counts.n = 2
    /\ counts.col["year"][1] = counts.col["year"][2]
    /\ counts.col["affordability_rating"][1] = "Severely Unaffordable"
    /\ counts.col["affordability_rating"][2] = "Impossibly Unaffordable"


\* C14: on an empty enriched table yearly_metro_summary returns an empty
\* summary without raising, affordability_counts_by_year and latest_year
\* complete without an exception on that summary, and the script run is not
\* ended by an exception.
C14_EmptySummaryHarmless ==
    (Made(df) /\ df.n = 0 /\ Columns(raw) = RequiredColumns) =>
        LET s == yearly_metro_summary(df)
        IN  /\ s.err = None
            /\ s.ret.n = 0
            /\ affordability_counts_by_year(s.ret).err = None
            /\ latest_year(s.ret).err = None
            /\ pc # "error"


\* the dates of the enriched table
DatesOf(d) == {d.col["date"][i] : i \in Rows(d)}

\* C16: the composite table has exactly one row for each date of the
\* enriched table, in strictly ascending order of date; its base row is its
\* first row, and no date of the input is earlier than the date of that row.
C16_OneRowPerDateAscending ==
    Made(comp) =>
        /\ comp.n = Cardinality(DatesOf(df))
        /\ {comp.col["date"][g] : g \in Rows(comp)} = DatesOf(df)
        /\ \A g \in 1..(comp.n - 1) : comp.col["date"][g] < comp.col["date"][g + 1]
        /\ BaseOf(comp) = 1
        /\ \A i \in Rows(df) : comp.col["date"][BaseOf(comp)] <= df.col["date"][i]
        /\ \A g \in Rows(comp) : comp.col["date"][BaseOf(comp)] <= comp.col["date"][g]

\* C16 witness: a composite table of two dates made from an enriched table
\* whose rows come latest date first
C16_Witness ==
    /\ Made(comp)
    /\ comp.n = 2
    /\ df.n = 2
    /\ df.col["date"][1] > df.col["date"][2]


-----------------------------------------------------------------------------
(* app.py: tab 2, and charts.py: metro_pti_lines *)

FocusYear == 2023

\* the rows sort_values(...).head(7) may keep: vals maps each row to its
\* value; with descending the largest come first, otherwise the smallest.
\* Rows of equal value come in an order the sort does not fix.
HeadSets(vals, descending) ==
    LET D == DOMAIN vals
        k == IF Cardinality(D) < 7 THEN Cardinality(D) ELSE 7
        Before(a, b) == IF descending THEN Leq(vals[b], vals[a]) ELSE Leq(vals[a], vals[b])
    IN  {S \in SUBSET D :
            /\ Cardinality(S) = k
            /\ \A a \in S, b \in D \ S : Before(a, b)}

\* app.py: summary[summary["year"] == focus_year].dropna(subset=["price_to_income"]),
\* as the map from city_full to price_to_income
summary_year(s, focus_year) ==
    LET kept == {g \in Rows(s) : /\ s.col["year"][g] = focus_year
                                 /\ ~IsNaN(s.col["price_to_income"][g])}
    IN  [c \in {s.col["city_full"][g] : g \in kept} |->
            s.col["price_to_income"][CHOOSE g \in kept : s.col["city_full"][g] = c]]

\* charts.py: the snapshot of metro_pti_lines: the mean per (city_full, year,
\* date), NaN dropped, then for the focus year the mean per city_full of
\* those means, as the map from city_full to price_to_income
snapshot(d, focus_year) ==
    LET in_year == {i \in Rows(d) : d.col["year"][i] = focus_year}
        dates(c) == {d.col["date"][i] : i \in {j \in in_year : d.col["city_full"][j] = c}}
        df_metro(c) ==
            [t \in dates(c) |->
                Mean(d.col["price_to_income"],
                     {i \in in_year : d.col["city_full"][i] = c /\ d.col["date"][i] = t})]
        value(c) == Mean(df_metro(c), dates(c))
    IN  [c \in {x \in {d.col["city_full"][i] : i \in in_year} : ~IsNaN(value(x))} |->
            value(c)]

\* tab 2: metro_pti_lines(df, focus_year) highlights top and bottom, then
\* top7 and bottom7 are computed from the summary and printed
Highlight ==
    /\ pc = "done"
    /\ \E top \in HeadSets(snapshot(df, FocusYear), TRUE),
          bottom \in HeadSets(snapshot(df, FocusYear), FALSE),
          top7 \in HeadSets(summary_year(summary, FocusYear), TRUE),
          bottom7 \in HeadSets(summary_year(summary, FocusYear), FALSE) :
            tab2' = [made |-> TRUE, top |-> top, bottom |-> bottom,
                     top7 |-> top7, bottom7 |-> bottom7]
    /\ pc' = "tab2"
    /\ UNCHANGED <<raw, df, comp, summary, counts, year_latest, err, pti_in, band_out>>

NextHighlight == Derive \/ Composite \/ Summarize \/ Count \/ Latest \/ Highlight

\* most rows (ZIP codes) a metro has on one date
MaxZips == 2

\* the metros whose number of rows per date varies; the others have one row
VaryingMetros == 3

\* price_to_income of the rows of each metro on the first date, in quarters;
\* on the second date it is 8 more
LowQuarters == <<8, 12, 16, 21, 23, 30, 34, 38>>

\* a raw row of the metro i with the ratio q/4
HighlightRow(i, date, q) ==
    [k \in RequiredColumns |->
        CASE k = "date" -> date
          [] k = "city_full" -> CityOrder[i]
          [] k = "median_sale_price" -> FMul(Num(251), Frac(q, 4))
          [] k = "Median Rent" -> Num(10)
          [] k = "Per Capita Income" -> Num(100)]

\* the rows of the metros i..8: layout[i] = <<rows on the first date, rows on
\* the second date>>
RECURSIVE HighlightRows(_, _)
HighlightRows(i, layout) ==
    IF i > Len(CityOrder) THEN <<>>
    ELSE [j \in 1..layout[i][1] |-> HighlightRow(i, <<FocusYear, 1>>, LowQuarters[i])]
         \o [j \in 1..layout[i][2] |-> HighlightRow(i, <<FocusYear, 7>>, LowQuarters[i] + 32)]
         \o HighlightRows(i + 1, layout)

\* app.py after raw = load_raw_data(): eight metros with rows in the focus year
InitHighlight ==
    /\ pc = "derive"
    /\ \E varying \in [1..VaryingMetros -> (1..MaxZips) \X (0..1)] :
          raw = TableOf(HighlightRows(1, [i \in 1..Len(CityOrder) |->
                            IF i <= VaryingMetros THEN varying[i] ELSE <<1, 0>>]),
                        RequiredColumns)
    /\ df = NoTable /\ comp = NoTable /\ summary = NoTable /\ counts = NoTable
    /\ year_latest = NoYear
    /\ err = None
    /\ pti_in = NaN
    /\ band_out = NoBand
    /\ tab2 = NoTab

SpecHighlight == InitHighlight /\ [][NextHighlight]_vars

\* C15: the top 7 and bottom 7 metros printed under "Metros Highlighted in
\* <focus_year>" are the metros metro_pti_lines highlights as top and bottom.
C15_ListsMatchChart ==
    tab2.made => (tab2.top7 = tab2.top /\ tab2.bottom7 = tab2.bottom)

====
